---------------------------- MODULE Spec2Model ----------------------------
(***************************************************************************)
(* Model of the data-acquisition layer of src/app.py: the cached           *)
(* acquisition functions (load_stock_list, get_sentiment_report,           *)
(* get_corporate_news, get_stock_fundamentals, get_mf_deep_dive), the      *)
(* st.cache_data memoization they are wrapped in, and the sentiment        *)
(* aggregation done inside get_sentiment_report; get_ipo_data; and the     *)
(* three pages that call them.                                             *)
(*                                                                         *)
(* Time is in seconds.  Polarity scores (VADER's compound, a real in       *)
(* [-1, 1]) are integers in hundredths, -100..100, and the arithmetic on   *)
(* them is exact.  A URL is the set of the host markers it contains; a     *)
(* title is the name of the result block it was read from.                 *)
(***************************************************************************)
EXTENDS Integers, Sequences, FiniteSets

VARIABLES
    now,      \* wall clock, seconds since the process started
    cache,    \* st.cache_data: key -> entry, one key per (function, argument)
    fetched,  \* key -> when the wrapped function last ran and returned (-1: never), and what
    last,     \* the most recent call at the present time: what it did and returned
    page      \* where the script is: idle between reruns, inside a call, on a page

vars == <<now, cache, fetched, last, page>>

---------------------------------------------------------------------------
(* Bounds of the model *)

MaxTicks == 1        \* the clock stops after this many steps
MaxBlocks == 2       \* result blocks in one search response (sentiment runs)

---------------------------------------------------------------------------
(* Program constants *)

SentimentTTL == 600
NewsTTL == 1200
FundamentalsTTL == 300
MfTTL == 3600
IpoTTL == 300
NoTTL == -1          \* @st.cache_data without ttl=: the entry never expires

PrimaryLimit == 8    \* [:8] on the primary search's result blocks
FallbackLimit == 5   \* [:5] on the fallback search's result blocks
NewsLimit == 5       \* [:5] on the corporate-news result blocks

Weight == 1          \* 'Weight': 1.0 in every sample

Functions ==
    {"load_stock_list", "get_sentiment_report", "get_corporate_news",
     "get_stock_fundamentals", "get_mf_deep_dive"}

\* The ttl= argument of each function's @st.cache_data decorator.
TTL(fn) ==
    CASE fn = "load_stock_list" -> NoTTL
      [] fn = "get_sentiment_report" -> SentimentTTL
      [] fn = "get_corporate_news" -> NewsTTL
      [] fn = "get_stock_fundamentals" -> FundamentalsTTL
      [] fn = "get_mf_deep_dive" -> MfTTL
      [] fn = "get_ipo_data" -> IpoTTL

---------------------------------------------------------------------------
(* Helpers *)

Min(a, b) == IF a < b THEN a ELSE b

\* Python's seq[:n]
Take(s, n) == SubSeq(s, 1, Min(Len(s), n))

RECURSIVE SumOver(_, _)
\* sum of f[i] over i in the finite set S
SumOver(f, S) ==
    IF S = {} THEN 0
    ELSE LET i == CHOOSE x \in S : TRUE IN f[i] + SumOver(f, S \ {i})

\* all sequences over S of length at most n
SeqsUpTo(S, n) == UNION {[1..k -> S] : k \in 0..n}

None == [kind |-> "None"]

\* one network request a function body issued: what was asked for, and how many
\* result blocks the answer gave (-1 when the request raised, timeouts included)
Req(url, found) == [url |-> url, found |-> found]

\* what running a function body gives: it raised or returned `value`;
\* `requests` are the network requests it issued, in order; `sampled` is
\* len(combined_data) when the sampling loop completed, else -1; `weightSum` is
\* the divisor of the weighted mean when that division was evaluated, else -1.
Outcome(raised, v, reqs, sampled, ws) ==
    [raised |-> raised, value |-> v, requests |-> reqs, sampled |-> sampled,
     weightSum |-> ws]

Returned(v, reqs) == Outcome(FALSE, v, reqs, -1, -1)

Raised(reqs) == Outcome(TRUE, None, reqs, -1, -1)

---------------------------------------------------------------------------
(* get_sentiment_report *)

\* "Assign Source Labels": the first matching host marker wins.
SourceLabel(link) ==
    IF "moneycontrol" \in link \/ "economictimes" \in link THEN "Financial News"
    ELSE IF "bseindia" \in link \/ "nseindia" \in link THEN "Exchange Filing"
    ELSE IF "groww" \in link \/ "zerodha" \in link THEN "Broker Note"
    ELSE IF "reddit" \in link THEN "Reddit"
    ELSE "Web News"

\* Rating with the cautious band opened at 20 (> in place of >=)
Rating_OpenAt20(final_score) ==
    IF final_score >= 80 THEN "Strong Buy (Bullish)"
    ELSE IF final_score >= 60 THEN "Accumulate (Positive)"
    ELSE IF final_score >= 40 THEN "Hold (Neutral)"
    ELSE IF final_score > 20 THEN "Reduce (Cautious)"
    ELSE "Sell (Bearish)"

\* "Rating Logic"
Rating(final_score) ==
    IF final_score >= 80 THEN "Strong Buy (Bullish)"
    ELSE IF final_score >= 60 THEN "Accumulate (Positive)"
    ELSE IF final_score >= 40 THEN "Hold (Neutral)"
    ELSE IF final_score >= 20 THEN "Reduce (Cautious)"
    ELSE "Sell (Bearish)"

\* combined_data.append({...}) for one result block that has a title anchor
Sample(res) ==
    [Title |-> res.title, Source |-> SourceLabel(res.link), Score |-> res.score,
     Link |-> res.link, Weight |-> Weight]

\* the for loop over results: a block without a title anchor is skipped
CombinedData(results) ==
    LET titled == SelectSeq(results, LAMBDA res : res.hasTitle)
    IN  [i \in 1..Len(titled) |-> Sample(titled[i])]

\* title_tag['href'] raises KeyError when the title anchor has no href
LoopRaises(results) ==
    \E i \in 1..Len(results) : results[i].hasTitle /\ ~results[i].hasHref

\* (df['Score'] * df['Weight']).sum() and df['Weight'].sum()
ScoreSum(data) ==
    SumOver([i \in 1..Len(data) |-> data[i].Score * data[i].Weight], 1..Len(data))

WeightSum(data) == SumOver([i \in 1..Len(data) |-> data[i].Weight], 1..Len(data))

\* int((weighted_score + 1) * 50) with weighted_score = num / den in hundredths:
\* (num/den + 100) * 50 / 100 = (num + 100 den) / (2 den), which is >= 0, so that
\* int() (truncation toward zero) is the floor.
FinalScore(num, den) == (num + 100 * den) \div (2 * den)

\* NoData with the emptiness test left out
NoData_Never(data) == FALSE

\* the test before the aggregation: `if not combined_data: return None`
NoData(data) == data = <<>>

\* lines 147-161: the division is evaluated only past the NoData test; were it
\* evaluated over no samples, the call would raise
Aggregate(data, reqs) ==
    IF NoData(data) THEN Outcome(FALSE, None, reqs, Len(data), -1)
    ELSE LET den == WeightSum(data)
             num == ScoreSum(data)
         IN  IF den = 0 THEN Outcome(TRUE, None, reqs, Len(data), den)
             ELSE LET final_score == FinalScore(num, den)
                  IN  Outcome(FALSE,
                              [kind |-> "report", score |-> final_score,
                               rating |-> Rating(final_score), data |-> data,
                               count |-> Len(data)],
                              reqs, Len(data), den)

\* NeedsFallback with the fallback search also issued after a single result
NeedsFallback_Few(results) == Len(results) <= 1

\* whether the fallback search is issued: `if not results:`
NeedsFallback(results) == results = <<>>

\* lines 125-145: the sampling loop under the except clause, then the rest
SampleAndAggregate(results, reqs) ==
    IF LoopRaises(results) THEN Returned(None, reqs)
    ELSE Aggregate(CombinedData(results), reqs)

\* the whole function; primary and fallback are what the two searches would
\* answer: [kind |-> "raise"] or [kind |-> "page", status, blocks].  The status
\* is never looked at: r.text is parsed whatever it is.
get_sentiment_report(primary, fallback) ==
    IF primary.kind = "raise" THEN Returned(None, <<Req("primary", -1)>>)
    ELSE LET first == Take(primary.blocks, PrimaryLimit)
             reqs == <<Req("primary", Len(first))>>
         IN  IF NeedsFallback(first)
             THEN IF fallback.kind = "raise"
                  THEN Returned(None, reqs \o <<Req("fallback", -1)>>)
                  ELSE LET results == Take(fallback.blocks, FallbackLimit)
                       IN  SampleAndAggregate(results,
                                              reqs \o <<Req("fallback", Len(results))>>)
             ELSE SampleAndAggregate(first, reqs)

---------------------------------------------------------------------------
(* load_stock_list *)

\* df.columns.str.strip() on one column label
Strip(label) ==
    CASE label = " SYMBOL" -> "SYMBOL"
      [] label = "Symbol " -> "Symbol"
      [] OTHER -> label

\* csv is what pd.read_csv gives: [kind |-> "raise"] or [kind |-> "csv", columns].
\* A label column built from a column that is missing raises KeyError inside
\* the try, which the bare except turns into the hardcoded list.
load_stock_list(csv) ==
    IF csv.kind = "raise"
    THEN Returned([kind |-> "fallback_list"], <<Req("stocks.csv", -1)>>)
    ELSE LET columns == {Strip(c) : c \in csv.columns}
             reqs == <<Req("stocks.csv", 0)>>
         IN  IF "SYMBOL" \in columns
             THEN IF "NAME OF COMPANY" \in columns
                  THEN Returned([kind |-> "table"], reqs)
                  ELSE Returned([kind |-> "fallback_list"], reqs)
             ELSE IF "Symbol" \in columns
             THEN IF "Company Name" \in columns
                  THEN Returned([kind |-> "table"], reqs)
                  ELSE Returned([kind |-> "fallback_list"], reqs)
             ELSE Returned([kind |-> "empty_table"], reqs)

---------------------------------------------------------------------------
(* get_corporate_news *)

\* "Smarter Tagging Logic": words is the set of keywords title.lower() contains
Tag(words) ==
    IF "dividend" \in words \/ "bonus" \in words THEN "Dividend/Bonus"
    ELSE IF "profit" \in words \/ "loss" \in words \/ "revenue" \in words \/ "q3" \in words
         THEN "Earnings"
    ELSE IF "order" \in words \/ "contract" \in words \/ "commission" \in words
            \/ "project" \in words
         THEN "New Order/Project"
    ELSE IF "merger" \in words \/ "acquisition" \in words THEN "M&A / Deal"
    ELSE "General"

NewsItems(results) ==
    LET titled == SelectSeq(results, LAMBDA res : res.hasTitle)
    IN  [i \in 1..Len(titled) |->
            [Title |-> titled[i].title, Link |-> titled[i].link, Tag |-> Tag(titled[i].words)]]

EmptyNews == [kind |-> "news", items |-> <<>>]

get_corporate_news(resp) ==
    IF resp.kind = "raise" THEN Returned(EmptyNews, <<Req("news", -1)>>)
    ELSE LET results == Take(resp.blocks, NewsLimit)
             reqs == <<Req("news", Len(results))>>
         IN  IF LoopRaises(results) THEN Returned(EmptyNews, reqs)
             ELSE Returned([kind |-> "news", items |-> NewsItems(results)], reqs)

---------------------------------------------------------------------------
(* get_stock_fundamentals *)

\* yahoo is what yfinance gives: history is "raise", "empty", "one_row" or
\* "rows"; fast_info and info are "ok" or "raise".  When stock.info raises, the
\* inner try leaves info = {} and the metrics are the defaults.
get_stock_fundamentals(yahoo) ==
    IF yahoo.history = "raise" THEN Returned(None, <<Req("history", -1)>>)
    ELSE IF yahoo.history = "empty" THEN Returned(None, <<Req("history", 0)>>)
    ELSE IF yahoo.history = "one_row" THEN Returned(None, <<Req("history", 1)>>)
    ELSE LET info == Req("info", IF yahoo.info = "raise" THEN -1 ELSE 0)
         IN  IF yahoo.fast_info = "raise"
             THEN Returned(None, <<Req("history", 2), info, Req("fast_info", -1)>>)
             ELSE Returned([kind |-> "fundamentals",
                            metrics |-> IF yahoo.info = "raise" THEN "defaults" ELSE "yahoo"],
                           <<Req("history", 2), info, Req("fast_info", 0)>>)

---------------------------------------------------------------------------
(* get_mf_deep_dive *)

NoneTriple == [kind |-> "mf", df |-> "None", details |-> "None", returns |-> "None"]

\* amfi is what mftool gives: ctor (Mftool(), which downloads the scheme list)
\* is "ok" or "raise"; nav is "raise", "no_data" or "ok"; details is "raise"
\* or "ok".  Mftool() is called before the try block.
get_mf_deep_dive(amfi) ==
    IF amfi.ctor = "raise" THEN Raised(<<Req("scheme_codes", -1)>>)
    ELSE IF amfi.nav = "raise"
         THEN Returned(NoneTriple, <<Req("scheme_codes", 0), Req("nav", -1)>>)
    ELSE IF amfi.nav = "no_data"
         THEN Returned(NoneTriple, <<Req("scheme_codes", 0), Req("nav", 0)>>)
    ELSE LET reqs == <<Req("scheme_codes", 0), Req("nav", 1)>>
         IN  IF amfi.details = "raise"
             THEN Returned(NoneTriple, reqs \o <<Req("details", -1)>>)
             ELSE Returned([kind |-> "mf", df |-> "df", details |-> "details",
                            returns |-> "returns"],
                           reqs \o <<Req("details", 0)>>)

---------------------------------------------------------------------------
(* get_ipo_data *)

\* manual_data: the columns the arithmetic and the page read
manual_data ==
    <<[Company |-> "Shadowfax Technologies", Type |-> "Mainboard", Price |-> 124, GMP |-> 6],
      [Company |-> "Hyundai Motor India", Type |-> "Mainboard", Price |-> 1960, GMP |-> -30],
      [Company |-> "Swiggy Limited", Type |-> "Mainboard", Price |-> 390, GMP |-> 15],
      [Company |-> "Biopol Chemicals", Type |-> "SME", Price |-> 108, GMP |-> 15],
      [Company |-> "Shayona Engineering", Type |-> "SME", Price |-> 144, GMP |-> 35]>>

\* a / b on two numeric columns, element by element: pandas divides as floats,
\* so that a zero divisor gives inf or nan and does not raise.  A finite
\* quotient is kept exact, as the fraction num / den.
Divide(a, b) ==
    IF b = 0
    THEN IF a = 0 THEN [kind |-> "nan"] ELSE [kind |-> "inf"]
    ELSE [kind |-> "ratio", num |-> a, den |-> b]

\* x * 100 on a quotient
Times100(x) == IF x.kind = "ratio" THEN [x EXCEPT !.num = @ * 100] ELSE x

\* GainPct with the estimated listing price as the divisor
GainPct_OverListing(row) == Times100(Divide(row.GMP, row.Price + row.GMP))

\* final_df['Gain%'] = (final_df['GMP'] / final_df['Price']) * 100
GainPct(row) == Times100(Divide(row.GMP, row.Price))

\* final_df['Est_Listing'] = final_df['Price'] + final_df['GMP']
EstListing(row) == row.Price + row.GMP

\* the function: no external call, the table is built from manual_data
get_ipo_data ==
    Returned([kind |-> "ipo_table",
              rows |-> [i \in 1..Len(manual_data) |->
                          [Company |-> manual_data[i].Company,
                           Type |-> manual_data[i].Type,
                           Price |-> manual_data[i].Price,
                           GMP |-> manual_data[i].GMP,
                           Gain |-> GainPct(manual_data[i]),
                           Est_Listing |-> EstListing(manual_data[i])]]],
             <<>>)

---------------------------------------------------------------------------
(* External answers the model draws from *)

NetRaise == [kind |-> "raise"]
NoRequest == [kind |-> "none"]

Statuses == {200, 503}

\* the shapes of one search result block
Shapes(links, scores) ==
    {[hasTitle |-> FALSE, hasHref |-> FALSE, link |-> {}, score |-> 0],
     [hasTitle |-> TRUE, hasHref |-> FALSE, link |-> {}, score |-> 0]}
    \cup {[hasTitle |-> TRUE, hasHref |-> TRUE, link |-> l, score |-> s] :
            l \in links, s \in scores}

\* the answers of one search: it raises, or it is a page of at most n blocks,
\* block i carrying the title <<origin, i>>
Responses(origin, n, links, scores) ==
    {NetRaise} \cup
    {[kind |-> "page", status |-> st,
      blocks |-> [i \in 1..Len(sh) |->
                    [title |-> <<origin, i>>, hasTitle |-> sh[i].hasTitle,
                     hasHref |-> sh[i].hasHref, link |-> sh[i].link,
                     score |-> sh[i].score]]] :
        st \in Statuses, sh \in SeqsUpTo(Shapes(links, scores), n)}

Links == {{"moneycontrol"}, {"reddit"}, {"reddit", "economictimes"}, {"zerodha"}, {}}
Scores == {-100, -60, 0, 33, 34, 100}

\* the answers used when every function is exercised together
FewLinks == {{"moneycontrol"}}
FewScores == {34}

NewsResponses ==
    {NetRaise} \cup
    {[kind |-> "page", status |-> 200, blocks |-> b] :
        b \in SeqsUpTo({[title |-> "t", hasTitle |-> TRUE, hasHref |-> TRUE,
                          link |-> {"moneycontrol"}, words |-> {"order", "profit"}],
                        [title |-> "u", hasTitle |-> TRUE, hasHref |-> FALSE,
                          link |-> {}, words |-> {}]}, 1)}

CsvAnswers ==
    {NetRaise} \cup
    {[kind |-> "csv", columns |-> c] :
        c \in {{" SYMBOL", "NAME OF COMPANY"}, {"Symbol ", "Company Name"},
               {"SYMBOL"}, {"Ticker"}}}

YahooAnswers ==
    [history : {"raise", "empty", "one_row"}, fast_info : {"ok"}, info : {"ok"}]
    \cup [history : {"rows"}, fast_info : {"ok", "raise"}, info : {"ok", "raise"}]

AmfiAnswers ==
    [ctor : {"raise"}, nav : {"ok"}, details : {"ok"}]
    \cup [ctor : {"ok"}, nav : {"raise", "no_data"}, details : {"ok"}]
    \cup [ctor : {"ok"}, nav : {"ok"}, details : {"raise", "ok"}]

\* the arguments each function is called with
Args(fn) ==
    CASE fn = "load_stock_list" -> {""}
      [] fn = "get_sentiment_report" -> {"TCS stock news"}
      [] fn = "get_corporate_news" -> {"TCS"}
      [] fn = "get_stock_fundamentals" -> {"TCS"}
      [] fn = "get_mf_deep_dive" -> {"119551"}

\* get_ipo_data is cached like the acquisition functions and takes no argument
IpoKey == <<"get_ipo_data", "">>

Keys ==
    {<<fn, a>> : fn \in Functions, a \in UNION {Args(f) : f \in Functions}}
    \cup {IpoKey}

---------------------------------------------------------------------------
(* st.cache_data *)

NoEntry == [kind |-> "absent"]

\* Fresh with the age comparison inverted
Fresh_Inverted(e, ttl, t) == e.kind = "entry" /\ ttl # NoTTL /\ t - e.created > ttl

\* an entry is served while it is younger than its ttl; without a ttl, always
Fresh(e, ttl, t) == e.kind = "entry" /\ (ttl = NoTTL \/ t - e.created < ttl)

\* a call served from the cache: the wrapped function does not run
Hit(fn, arg) ==
    LET k == <<fn, arg>> IN
    /\ Fresh(cache[k], TTL(fn), now)
    /\ last' = [fn |-> fn, arg |-> arg, ran |-> FALSE, raised |-> FALSE,
                value |-> cache[k].value, requests |-> <<>>, sampled |-> -1,
                weightSum |-> -1, prev |-> fetched[k].at]
    /\ UNCHANGED <<now, cache, fetched>>

\* the value a function returns when its fetch failed; get_ipo_data fetches
\* nothing and has none
DegradedValue(fn) ==
    CASE fn = "load_stock_list" -> [kind |-> "fallback_list"]
      [] fn = "get_corporate_news" -> EmptyNews
      [] fn = "get_mf_deep_dive" -> NoneTriple
      [] fn \in {"get_sentiment_report", "get_stock_fundamentals"} -> None
      [] OTHER -> [kind |-> "no degraded value"]

\* Miss that stores a returned value only when it is not the degraded one
Miss_SkipDegraded(fn, arg, out) ==
    LET k == <<fn, arg>> IN
    /\ ~Fresh(cache[k], TTL(fn), now)
    /\ last' = [fn |-> fn, arg |-> arg, ran |-> TRUE, raised |-> out.raised,
                value |-> out.value, requests |-> out.requests,
                sampled |-> out.sampled, weightSum |-> out.weightSum,
                prev |-> fetched[k].at]
    /\ IF out.raised \/ out.value = DegradedValue(fn)
       THEN UNCHANGED <<cache, fetched>>
       ELSE /\ cache' = [cache EXCEPT ![k] =
                            [kind |-> "entry", value |-> out.value, created |-> now]]
            /\ fetched' = [fetched EXCEPT ![k] = [at |-> now, value |-> out.value]]
    /\ UNCHANGED now

\* a call that runs the wrapped function, whose body gave `out`; a returned
\* value is stored with created = now, an exception stores nothing
Miss(fn, arg, out) ==
    LET k == <<fn, arg>> IN
    /\ ~Fresh(cache[k], TTL(fn), now)
    /\ last' = [fn |-> fn, arg |-> arg, ran |-> TRUE, raised |-> out.raised,
                value |-> out.value, requests |-> out.requests,
                sampled |-> out.sampled, weightSum |-> out.weightSum,
                prev |-> fetched[k].at]
    /\ IF out.raised
       THEN UNCHANGED <<cache, fetched>>
       ELSE /\ cache' = [cache EXCEPT ![k] =
                            [kind |-> "entry", value |-> out.value, created |-> now]]
            /\ fetched' = [fetched EXCEPT ![k] = [at |-> now, value |-> out.value]]
    /\ UNCHANGED now

---------------------------------------------------------------------------
(* The calls the pages make, and the clock.  The external answers are drawn *)
(* only when the wrapped function is about to run.                          *)

CallStockList ==
    \/ Hit("load_stock_list", "")
    \/ /\ ~Fresh(cache[<<"load_stock_list", "">>], TTL("load_stock_list"), now)
       /\ \E csv \in CsvAnswers : Miss("load_stock_list", "", load_stock_list(csv))

CallSentiment(n, links, scores) ==
    \E q \in Args("get_sentiment_report") :
        \/ Hit("get_sentiment_report", q)
        \/ /\ ~Fresh(cache[<<"get_sentiment_report", q>>], TTL("get_sentiment_report"), now)
           /\ \E p \in Responses("primary", n, links, scores) :
                \E f \in IF p.kind = "page" /\ NeedsFallback(Take(p.blocks, PrimaryLimit))
                         THEN Responses("fallback", n, links, scores) ELSE {NoRequest} :
                   Miss("get_sentiment_report", q, get_sentiment_report(p, f))

CallNews ==
    \E t \in Args("get_corporate_news") :
        \/ Hit("get_corporate_news", t)
        \/ /\ ~Fresh(cache[<<"get_corporate_news", t>>], TTL("get_corporate_news"), now)
           /\ \E r \in NewsResponses :
                Miss("get_corporate_news", t, get_corporate_news(r))

CallFundamentals ==
    \E t \in Args("get_stock_fundamentals") :
        \/ Hit("get_stock_fundamentals", t)
        \/ /\ ~Fresh(cache[<<"get_stock_fundamentals", t>>], TTL("get_stock_fundamentals"), now)
           /\ \E y \in YahooAnswers :
                Miss("get_stock_fundamentals", t, get_stock_fundamentals(y))

CallMf ==
    \E c \in Args("get_mf_deep_dive") :
        \/ Hit("get_mf_deep_dive", c)
        \/ /\ ~Fresh(cache[<<"get_mf_deep_dive", c>>], TTL("get_mf_deep_dive"), now)
           /\ \E m \in AmfiAnswers : Miss("get_mf_deep_dive", c, get_mf_deep_dive(m))

CallIpoData ==
    \/ Hit("get_ipo_data", "")
    \/ /\ ~Fresh(cache[IpoKey], TTL("get_ipo_data"), now)
       /\ Miss("get_ipo_data", "", get_ipo_data)

NoCall ==
    [fn |-> "", arg |-> "", ran |-> FALSE, raised |-> FALSE, value |-> None,
     requests |-> <<>>, sampled |-> -1, weightSum |-> -1, prev |-> -1]

\* the clock advances in steps of the shortest ttl
TimeStep == FundamentalsTTL

Tick ==
    /\ now + TimeStep <= MaxTicks * TimeStep
    /\ now' = now + TimeStep
    /\ last' = NoCall
    /\ UNCHANGED <<cache, fetched>>

\* the script is not running
Idle == [pc |-> "idle"]

Init ==
    /\ now = 0
    /\ cache = [k \in Keys |-> NoEntry]
    /\ fetched = [k \in Keys |-> [at |-> -1, value |-> None]]
    /\ last = NoCall
    /\ page = Idle

\* every cached function, the clock running; each call is taken whole
Next ==
    \/ CallStockList /\ UNCHANGED page
    \/ CallSentiment(1, FewLinks, FewScores) /\ UNCHANGED page
    \/ CallNews /\ UNCHANGED page
    \/ CallFundamentals /\ UNCHANGED page
    \/ CallMf /\ UNCHANGED page
    \/ Tick /\ UNCHANGED page

Spec == Init /\ [][Next]_vars

\* get_sentiment_report over the full range of search answers
SentNext == CallSentiment(MaxBlocks, Links, Scores) /\ UNCHANGED page

SentSpec == Init /\ [][SentNext]_vars

\* the calls of the IPO page: the table, and the sentiment of the selected issue
IpoNext ==
    \/ CallIpoData /\ UNCHANGED page
    \/ CallSentiment(1, FewLinks, Scores) /\ UNCHANGED page
    \/ Tick /\ UNCHANGED page

IpoSpec == Init /\ [][IpoNext]_vars

---------------------------------------------------------------------------
(* One call, request by request.  A function body that runs issues its     *)
(* network requests one after the other and blocks on each until the       *)
(* answer arrives, the connection fails, or the timeout the request        *)
(* carries expires.                                                        *)

NoTimeout == "none"

\* the timeout each network call carries: requests.get is given timeout=10;
\* yfinance applies its own default to the requests it makes; pd.read_csv(url)
\* and the mftool calls are given none and have no default
TimeoutOf(url) ==
    CASE url \in {"primary", "fallback", "news"} -> "timeout=10"
      [] url \in {"history", "info", "fast_info"} -> "yfinance default"
      [] url \in {"stocks.csv", "scheme_codes", "nav", "details"} -> NoTimeout

\* what the body of fn can give, over the external answers
Bodies(fn) ==
    CASE fn = "load_stock_list" -> {load_stock_list(csv) : csv \in CsvAnswers}
      [] fn = "get_sentiment_report" ->
            UNION {{get_sentiment_report(p, f) :
                       f \in IF p.kind = "page" /\ NeedsFallback(Take(p.blocks, PrimaryLimit))
                             THEN Responses("fallback", 1, FewLinks, FewScores)
                             ELSE {NoRequest}} :
                   p \in Responses("primary", 1, FewLinks, FewScores)}
      [] fn = "get_corporate_news" -> {get_corporate_news(r) : r \in NewsResponses}
      [] fn = "get_stock_fundamentals" -> {get_stock_fundamentals(y) : y \in YahooAnswers}
      [] fn = "get_mf_deep_dive" -> {get_mf_deep_dive(m) : m \in AmfiAnswers}

\* the request the running body is blocked on
Pending == page.out.requests[page.sent]

\* a call that finds no fresh entry enters the function body
StartCall ==
    /\ page = Idle
    /\ \E fn \in Functions :
         \E arg \in Args(fn) :
            /\ ~Fresh(cache[<<fn, arg>>], TTL(fn), now)
            /\ \E out \in Bodies(fn) :
                 page' = [pc |-> "calling", fn |-> fn, arg |-> arg, out |-> out,
                          sent |-> 0, waiting |-> FALSE, hangs |-> FALSE]
    /\ UNCHANGED <<now, cache, fetched, last>>

\* a call that finds a fresh entry returns at once
ServeCall ==
    /\ page = Idle
    /\ \E fn \in Functions : \E arg \in Args(fn) : Hit(fn, arg)
    /\ UNCHANGED page

\* the body issues its next request and blocks on it; a request the body sees
\* fail may have failed at once, or its endpoint may never answer
SendRequest ==
    /\ page.pc = "calling"
    /\ ~page.waiting
    /\ page.sent < Len(page.out.requests)
    /\ \E h \in IF page.out.requests[page.sent + 1].found = -1 THEN BOOLEAN ELSE {FALSE} :
         page' = [page EXCEPT !.sent = @ + 1, !.waiting = TRUE, !.hangs = h]
    /\ UNCHANGED <<now, cache, fetched, last>>

\* the answer, or the connection error, arrives
Respond ==
    /\ page.pc = "calling"
    /\ page.waiting
    /\ ~page.hangs
    /\ page' = [page EXCEPT !.waiting = FALSE]
    /\ UNCHANGED <<now, cache, fetched, last>>

\* the endpoint never answers: the request's timeout expires and the request
\* raises, if it carries one
TimeoutFires ==
    /\ page.pc = "calling"
    /\ page.waiting
    /\ page.hangs
    /\ TimeoutOf(Pending.url) # NoTimeout
    /\ page' = [page EXCEPT !.waiting = FALSE, !.hangs = FALSE]
    /\ UNCHANGED <<now, cache, fetched, last>>

\* the body is through: control is back with the caller
ReturnFromCall ==
    /\ page.pc = "calling"
    /\ ~page.waiting
    /\ page.sent = Len(page.out.requests)
    /\ Miss(page.fn, page.arg, page.out)
    /\ page' = Idle

NetNext ==
    \/ StartCall
    \/ ServeCall
    \/ SendRequest
    \/ Respond
    \/ TimeoutFires
    \/ ReturnFromCall

NetSpec == Init /\ [][NetNext]_vars

---------------------------------------------------------------------------
(* The script: every rerun loads the stock list and evaluates the page the  *)
(* sidebar selects.  A step is one statement that calls a cached function   *)
(* or reads what a call returned; an exception nothing catches ends the     *)
(* rerun.  Each query stands for the one the page builds.                  *)

PageNames == {"Equity", "IPO", "MF"}

Crashed(name, error) == [pc |-> "crashed", name |-> name, error |-> error]

Done(name) == [pc |-> "done", name |-> name]

\* stock_df = load_stock_list(), then the sidebar's choice of page
Rerun ==
    /\ page = Idle
    /\ CallStockList
    /\ \E name \in PageNames :
         page' = [pc |-> "page", name |-> name, stock_df |-> last'.value]

\* st.selectbox("Search Company", stock_df['Search_Label'].unique(), ...):
\* an empty DataFrame has no Search_Label column.  The report is generated
\* when a company is selected and the button is pressed.
EquitySelect ==
    /\ page.pc = "page"
    /\ page.name = "Equity"
    /\ IF page.stock_df.kind = "empty_table"
       THEN page' = Crashed("Equity", "KeyError: 'Search_Label'")
       ELSE \E report \in BOOLEAN :
              page' = IF report THEN [pc |-> "fundamentals", name |-> "Equity"]
                      ELSE Done("Equity")
    /\ UNCHANGED <<now, cache, fetched, last>>

\* data = get_stock_fundamentals(ticker)
EquityFundamentals ==
    /\ page.pc = "fundamentals"
    /\ CallFundamentals
    /\ page' = [pc |-> "sentiment", name |-> "Equity"]

\* sentiment = get_sentiment_report(f"{ticker} stock news")
EquitySentiment ==
    /\ page.pc = "sentiment"
    /\ page.name = "Equity"
    /\ CallSentiment(1, FewLinks, FewScores)
    /\ page' = [pc |-> "news", name |-> "Equity"]

\* corp_news = get_corporate_news(ticker); what follows reads data, sentiment
\* and corp_news under `if data:`, `if sentiment:` and `if corp_news:`
EquityNews ==
    /\ page.pc = "news"
    /\ CallNews
    /\ page' = Done("Equity")

\* ipo_df = get_ipo_data()
IpoTable ==
    /\ page.pc = "page"
    /\ page.name = "IPO"
    /\ CallIpoData
    /\ page' = [pc |-> "sentiment", name |-> "IPO"]

\* ipo_sent = get_sentiment_report(f"{sel_ipo} IPO review"), read under
\* `if ipo_sent:`
IpoSentiment ==
    /\ page.pc = "sentiment"
    /\ page.name = "IPO"
    /\ CallSentiment(1, FewLinks, FewScores)
    /\ page' = Done("IPO")

\* obj = Mftool(); schemes = obj.get_scheme_codes(): not inside any try.  The
\* analysis runs when a fund is selected and the button is pressed.
MfSchemes ==
    /\ page.pc = "page"
    /\ page.name = "MF"
    /\ \E amfi \in {"ok", "raise"} :
         IF amfi = "raise"
         THEN page' = Crashed("MF", "exception from mftool")
         ELSE \E analyze \in BOOLEAN :
                page' = IF analyze THEN [pc |-> "deep_dive", name |-> "MF"]
                        ELSE Done("MF")
    /\ UNCHANGED <<now, cache, fetched, last>>

\* df_a, det_a, ret_a = get_mf_deep_dive(code_a)
MfDeepDive ==
    /\ page.pc = "deep_dive"
    /\ CallMf
    /\ page' = IF last'.raised
               THEN Crashed("MF", "exception from mftool")
               ELSE [pc |-> "fund_house", name |-> "MF", df_a |-> last'.value.df,
                     det_a |-> last'.value.details]

\* clean_name = det_a['fund_house']: subscripting None raises TypeError
MfFundHouse ==
    /\ page.pc = "fund_house"
    /\ page' = IF page.det_a = "None"
               THEN Crashed("MF", "TypeError: 'NoneType' object is not subscriptable")
               ELSE [page EXCEPT !.pc = "sentiment"]
    /\ UNCHANGED <<now, cache, fetched, last>>

\* sent_a = get_sentiment_report(f"{clean_name} Mutual Fund news"); then
\* compare mode when a second fund is selected, else the single view, which
\* reads df_a, det_a, ret_a under `if df_a is not None:`
MfSentiment ==
    /\ page.pc = "sentiment"
    /\ page.name = "MF"
    /\ CallSentiment(1, FewLinks, FewScores)
    /\ \E fund_b \in BOOLEAN :
         page' = IF fund_b THEN [page EXCEPT !.pc = "compare"] ELSE Done("MF")

\* df_b, det_b, ret_b = get_mf_deep_dive(code_b), read under
\* `if df_a is not None and df_b is not None:`
MfCompare ==
    /\ page.pc = "compare"
    /\ CallMf
    /\ page' = IF last'.raised THEN Crashed("MF", "exception from mftool") ELSE Done("MF")

\* the rerun is over: the page is shown, or the exception is
EndRerun ==
    /\ page.pc \in {"done", "crashed"}
    /\ page' = Idle
    /\ UNCHANGED <<now, cache, fetched, last>>

PageNext ==
    \/ Rerun
    \/ EquitySelect
    \/ EquityFundamentals
    \/ EquitySentiment
    \/ EquityNews
    \/ IpoTable
    \/ IpoSentiment
    \/ MfSchemes
    \/ MfDeepDive
    \/ MfFundHouse
    \/ MfSentiment
    \/ MfCompare
    \/ EndRerun

PageSpec == Init /\ [][PageNext]_vars

---------------------------------------------------------------------------
(* Properties *)

Sentiment == "get_sentiment_report"

\* the most recent call ran the body of get_sentiment_report
SentimentRan == last.fn = Sentiment /\ last.ran

DaySeconds == 24 * 3600

\* C2: every cache entry has a finite time-to-live: a call made a day (the
\* longest staleness the design names) after an entry was created finds it stale.
C2_EveryEntryExpires ==
    \A k \in Keys :
        cache[k].kind = "entry" =>
            ~Fresh(cache[k], TTL(k[1]), cache[k].created + DaySeconds)

\* C3: when the primary search finds at least one result block, the fallback
\* search is not issued and every sample of the report is from the primary
\* response.
C3_PrimaryOnly ==
    (SentimentRan /\ last.requests[1].found >= 1) =>
        /\ Len(last.requests) = 1
        /\ last.value.kind = "report" =>
              \A i \in 1..Len(last.value.data) : last.value.data[i].Title[1] = "primary"

\* a report built after the primary search found result blocks
C3_Witness ==
    SentimentRan /\ last.requests[1].found >= 1 /\ last.value.kind = "report"

\* C4: the no-data result is returned only after the fallback search was
\* attempted, whatever made the primary search contribute no samples.
C4_FallbackBeforeNoData ==
    (SentimentRan /\ ~last.raised /\ last.value = None) =>
        \E i \in 1..Len(last.requests) : last.requests[i].url = "fallback"

\* C5: no acquisition function raises, whatever its external calls do.
C5_NeverRaises == ~last.raised

\* C6: with no sampled item the result is the no-data sentinel and the weighted
\* mean is not evaluated; whenever it is evaluated the sum of weights is > 0.
C6_NoDivisionByZero ==
    /\ last.weightSum # -1 => last.weightSum > 0
    /\ last.sampled = 0 => (~last.raised /\ last.value = None /\ last.weightSum = -1)

\* a sentiment run whose sampling loop completed with no item
C6_Witness == SentimentRan /\ last.sampled = 0

\* C7: the confidence is the integer nearest to (weighted_mean + 1) * 50, and
\* lies in 0..100.  With x = (num + 100 den) / (2 den), nearest means
\* |score - x| <= 1/2, that is |2 den score - (num + 100 den)| <= den.
C7_ConfidenceIsRounded ==
    last.value.kind = "report" =>
        LET num == ScoreSum(last.value.data)
            den == WeightSum(last.value.data)
            off == 2 * den * last.value.score - (num + 100 * den)
        IN  /\ last.value.score \in 0..100
            /\ off <= den
            /\ -off <= den

\* the five bands of the design, lowest first, and where each begins
BandNames ==
    <<"Sell (Bearish)", "Reduce (Cautious)", "Hold (Neutral)", "Accumulate (Positive)",
      "Strong Buy (Bullish)">>

BandLow == <<0, 20, 40, 60, 80>>

\* [0,20), [20,40), [40,60), [60,80), [80,100]
InBand(c, i) == BandLow[i] <= c /\ (IF i = 5 THEN c <= 100 ELSE c < BandLow[i + 1])

BandRank(r) == CHOOSE i \in 1..5 : BandNames[i] = r

\* C8: every confidence in 0..100 is rated with the one band whose interval
\* holds it; the rating is monotone in the confidence; 20 is cautious and 100
\* strongly positive; and every report carries the rating of its score.
C8_RatingBands ==
    /\ \A c \in 0..100 : \A i \in 1..5 : InBand(c, i) <=> Rating(c) = BandNames[i]
    /\ \A c \in 0..99 : BandRank(Rating(c)) <= BandRank(Rating(c + 1))
    /\ Rating(20) = "Reduce (Cautious)"
    /\ Rating(100) = "Strong Buy (Bullish)"
    /\ last.value.kind = "report" =>
          /\ last.value.score \in 0..100
          /\ InBand(last.value.score, BandRank(last.value.rating))

\* a report whose confidence sits on the boundary between the two lowest bands
C8_Witness ==
    /\ SentimentRan
    /\ last.value.kind = "report"
    /\ last.value.score = 20
    /\ last.value.rating = "Reduce (Cautious)"

\* C9: a sample from edited financial press weighs strictly more than a sample
\* from unmoderated social commentary.
C9_CredibilityWeights ==
    last.value.kind = "report" =>
        \A i, j \in 1..Len(last.value.data) :
            (last.value.data[i].Source = "Financial News"
                /\ last.value.data[j].Source = "Reddit")
            => last.value.data[i].Weight > last.value.data[j].Weight

\* the answers of a search that succeeds and holds no usable item
ZeroItemPages(origin) ==
    {r \in Responses(origin, 1, {}, {}) :
        r.kind = "page" /\ \A i \in 1..Len(r.blocks) : ~r.blocks[i].hasTitle}

\* what get_sentiment_report returns when every search succeeds with zero items
EmptySuccessValues ==
    {get_sentiment_report(p, f).value :
        p \in ZeroItemPages("primary"), f \in ZeroItemPages("fallback")}

\* C10: a run in which a network call raised never returns a value that a run
\* whose calls all succeeded with zero items returns.
C10_ErrorDistinctFromEmpty ==
    (SentimentRan /\ \E i \in 1..Len(last.requests) : last.requests[i].found = -1) =>
        last.value \notin EmptySuccessValues

\* the rows of the table the most recent get_ipo_data call returned
IpoRows == IF last.fn = "get_ipo_data" THEN last.value.rows ELSE <<>>

DegradedInWindow(k) ==
    /\ fetched[k].at # -1
    /\ fetched[k].value = DegradedValue(k[1])
    /\ (TTL(k[1]) = NoTTL \/ now - fetched[k].at < TTL(k[1]))

\* one step of the program, as C13 reads it
C13_Step ==
    \A k \in Keys :
        (now' = now /\ last'.fn = k[1] /\ last'.arg = k[2]) =>
            \* a run that returned the degraded value stored it as an entry
            /\ (last'.ran /\ ~last'.raised /\ last'.value = DegradedValue(k[1])) =>
                  cache'[k] = [kind |-> "entry", value |-> DegradedValue(k[1]),
                               created |-> now]
            \* a call inside the window of a degraded run is served from it
            /\ DegradedInWindow(k) =>
                  /\ ~last'.ran
                  /\ last'.requests = <<>>
                  /\ last'.value = DegradedValue(k[1])
                  /\ cache' = cache

\* C13: the degraded value a failed fetch returns is cached like any other
\* value; every call with the same arguments made inside the TTL window of
\* that run returns the degraded value and issues no network request,
\* whatever the source would answer now.
C13_DegradedIsCached == [][C13_Step]_vars

\* a sentiment call that was answered None from the cache, some time after
\* the failed fetch
C13_Witness ==
    /\ last.fn = Sentiment
    /\ ~last.ran
    /\ last.value = None
    /\ now > last.prev

\* C12: every network call of the acquisition functions carries a timeout, so
\* that a function blocked on an endpoint that never answers still returns.
C12_EveryRequestTimesOut ==
    (page.pc = "calling" /\ page.waiting) => TimeoutOf(Pending.url) # NoTimeout

\* the exceptions raised by reading a degraded result as if it were data
DegradedResultErrors ==
    {"KeyError: 'Search_Label'", "TypeError: 'NoneType' object is not subscriptable"}

\* C14: no rerun ends in an unhandled exception raised by reading the degraded
\* result of an acquisition function: the Mutual Funds page does not subscript
\* the missing scheme details of (None, None, None), and the Equity page
\* evaluates on the empty table of load_stock_list.
C14_DegradedResultsAreHandled ==
    page.pc = "crashed" => page.error \notin DegradedResultErrors

=============================================================================
